---- MODULE Spec2Model ----
(***************************************************************************)
(* Loan state machine of the inventory/lending tracker.                    *)
(*                                                                         *)
(* The state is the committed content of the PostgreSQL tables "item" and  *)
(* "loan" (src/unnamed/part_000 and the two later migrations) together     *)
(* with the position of every in-flight request of the API handler         *)
(* (src/src/pages/api/actions.ts).  Every `await` of the handler is one    *)
(* step, so requests interleave exactly where the code lets them.          *)
(*                                                                         *)
(* Storage semantics (PostgreSQL, READ COMMITTED):                         *)
(*  - a statement reads the committed tables plus its own transaction's    *)
(*    writes; writes of an open transaction become visible at COMMIT;      *)
(*  - INSERT INTO loan checks loan_item_id_fkey and takes a KEY SHARE lock *)
(*    on the referenced item row;                                          *)
(*  - UPDATE item SET current_loan_id changes a column of the unique index *)
(*    item_current_loan_id_key and DELETE removes the row: both take the   *)
(*    exclusive row lock, which conflicts with KEY SHARE of others;        *)
(*  - UPDATE loan SET returned_at takes the row lock of the loan row;      *)
(*  - a statement that needs a lock held by another transaction waits; a   *)
(*    cycle of waiting transactions is broken by aborting one of them.     *)
(* The locks a request holds follow from its position, so they are         *)
(* operators over pc, not variables.                                       *)
(***************************************************************************)
EXTENDS Integers, FiniteSets, Sequences, TLC

\* Number of requests the handler serves in one run.
MaxReq == 3
\* Number of item rows present when the run starts.
MaxItem == 2

\* Payload value standing for an itemId that is not a number (or NaN).
NotANumber == -1
\* SQL NULL in current_loan_id and returned_at.
Null == 0

Reqs == 1..MaxReq
ItemIds == 1..MaxItem

PatronNames == {"Bob"}
Actions == {"checkout", "return", "deleteItem"}

VARIABLES
    item,      \* committed table item: id -> [currentLoanId]
    loan,      \* committed table loan: id -> [itemId, patronName, returnedAt]
               \* (returnedAt: Null, or the request whose `new Date()` it holds)
    loanSeq,   \* next value of the SERIAL loan.id
    pc,        \* position of every request in the handler
    payload,   \* request body: [action, itemId, patronName]
    txLoan,    \* checkout: id of the loan it created; return: the id it read
    res,       \* response: [ok, status, kind]
    seed,      \* position of the seed script
    seedLoan,  \* seed script: loanMap entry of the seeded loan
    seedItems, \* seed script: itemMap, a sequence of created item ids
    seedTypes, \* seed script: itemTypeMap, a sequence of created item type ids
    seedCats,  \* seed script: categoryMap, a sequence of created category ids
    itemSeq,   \* next value of the SERIAL item.id
    storage0,  \* the committed tables the run started from
    itemType,  \* committed table item_type: id -> [code]
    category,  \* committed table category: id -> [code, parentId]
    itemToCategory, \* committed table _ItemToCategory: pairs <<A, B>>,
               \* A a category id and B an item id
    itemTypeSeq,    \* next value of the SERIAL item_type.id
    categorySeq,    \* next value of the SERIAL category.id
    http,      \* the HTTP request of every request: [method, authorization, body]
    envToken,  \* process.env.NEXT_PUBLIC_DEMO_AUTH_TOKEN
    snapshot,  \* the page's state: the snapshot of the latest 200 response
    reads      \* getSnapshot of every request: the results of its queries

vars == <<item, loan, loanSeq, pc, payload, txLoan, res,
          seed, seedLoan, seedItems, seedTypes, seedCats, itemSeq, storage0,
          itemType, category, itemToCategory, itemTypeSeq, categorySeq,
          http, envToken, snapshot, reads>>

seedVars == <<seed, seedLoan, seedItems, seedTypes, seedCats, itemSeq>>
catalogVars == <<itemType, category, itemToCategory, itemTypeSeq, categorySeq>>
httpVars == <<http, envToken>>

NoPayload == [action |-> "", itemId |-> 0, patronName |-> ""]
NoRes == [ok |-> FALSE, status |-> 0, kind |-> ""]

Ok == [ok |-> TRUE, status |-> 200, kind |-> "snapshot"]
Fail(status, kind) == [ok |-> FALSE, status |-> status, kind |-> kind]

----------------------------------------------------------------------------
\* Table helpers.

ItemExists(i) == i \in DOMAIN item
LoanExists(l) == l \in DOMAIN loan
OpenLoans(i) == {l \in DOMAIN loan : loan[l].itemId = i /\ loan[l].returnedAt = Null}
LoansOf(i) == {l \in DOMAIN loan : loan[l].itemId = i}

Without(f, S) == [x \in DOMAIN f \ S |-> f[x]]

----------------------------------------------------------------------------
\* Row locks held by request r, as implied by its position.

HoldsKeyShare(r, i) ==
    /\ payload[r].action = "checkout"
    /\ payload[r].itemId = i
    /\ pc[r] \in {"created", "updated", "abort"}

HoldsItemExcl(r, i) ==
    /\ payload[r].itemId = i
    /\ \/ payload[r].action = "checkout" /\ pc[r] = "updated"
       \/ payload[r].action = "return" /\ pc[r] = "cleared"
       \/ payload[r].action = "deleteItem" /\ pc[r] = "cascade"

HoldsLoanExcl(r, l) ==
    /\ payload[r].action = "return"
    /\ txLoan[r] = l
    /\ pc[r] \in {"closed", "cleared", "abort"}

\* Requests whose locks stop r from taking KEY SHARE on item i.
KeyShareBlockers(r, i) == {s \in Reqs \ {r} : HoldsItemExcl(s, i)}
\* Requests whose locks stop r from taking the exclusive lock on item i.
ItemExclBlockers(r, i) ==
    {s \in Reqs \ {r} : HoldsItemExcl(s, i) \/ HoldsKeyShare(s, i)}
\* Requests whose locks stop r from locking loan row l.
LoanBlockers(r, l) == {s \in Reqs \ {r} : HoldsLoanExcl(s, l)}

----------------------------------------------------------------------------
\* Initial state: the seeded database. Item 1 is ON_LOAN to Arthur Dent (the
\* seed data's one open loan), every other item is AVAILABLE.

SeedOnLoan == {1}

\* checkout_date is a DATE, here a day number: the day of the seed loan
\* (2025-08-01) and CURRENT_DATE of the run, a later day.
SeedCheckoutDate == 1
Today == 2

\* items[k].itemTypeId of the seed data: the second item is the one of the
\* second type.
SeedItemTypeId(i) == IF i = 2 THEN 2 ELSE 1

InitStorage(onLoan) ==
    [item |-> [i \in ItemIds |->
                 [currentLoanId |-> IF i \in onLoan THEN i ELSE Null,
                  itemTypeId |-> SeedItemTypeId(i)]],
     loan |-> [l \in onLoan |->
                 [itemId |-> l, patronName |-> "Arthur Dent", returnedAt |-> Null,
                  checkoutDate |-> SeedCheckoutDate]]]

\* The seed data's item types and categories, with the ids a fresh database
\* gives them; text is a sequence of characters.
SeedItemTypes ==
    <<[code |-> <<"B", "O", "O", "K">>], [code |-> <<"E", "L", "E", "C">>]>>

SeedCategories ==
    <<[code |-> <<"F", "I", "C", "T">>, parentId |-> Null],
      [code |-> <<"S", "C", "I", "F", "I">>, parentId |-> 1]>>

\* items[k].categories of the seed data: item 1 is in both categories,
\* item 3 in the first.
SeedDataLinks == {<<1, 1>>, <<2, 1>>, <<1, 3>>}

SeedItemToCategory == {ab \in SeedDataLinks : ab[2] \in ItemIds}

InitCatalog ==
    /\ itemType = SeedItemTypes
    /\ category = SeedCategories
    /\ itemToCategory = SeedItemToCategory
    /\ itemTypeSeq = Len(SeedItemTypes) + 1
    /\ categorySeq = Len(SeedCategories) + 1

\* The configured bearer token.
Token == <<"t", "k">>

NoBody == [action |-> "", payload |-> [t |-> "undefined"]]
NoHttp == [method |-> "", authorization |-> <<>>, body |-> NoBody]

\* The page before its first response.
NoSnapshot == [itemTypes |-> <<>>, categories |-> <<>>, items |-> <<>>]

\* getSnapshot before any of its queries resolved.
NoReads == [got |-> {}, itemTypes |-> <<>>, categories |-> <<>>, items |-> <<>>]

InitRequests ==
    /\ pc = [r \in Reqs |-> "idle"]
    /\ payload = [r \in Reqs |-> NoPayload]
    /\ txLoan = [r \in Reqs |-> Null]
    /\ res = [r \in Reqs |-> NoRes]
    /\ http = [r \in Reqs |-> NoHttp]
    /\ snapshot = NoSnapshot
    /\ reads = [r \in Reqs |-> NoReads]

Init ==
    /\ storage0 = InitStorage(SeedOnLoan)
    /\ item = storage0.item
    /\ loan = storage0.loan
    /\ loanSeq = MaxItem + 1
    /\ itemSeq = MaxItem + 1
    /\ InitRequests
    /\ InitCatalog
    /\ envToken = Token
    /\ seed = "off"
    /\ seedLoan = Null
    /\ seedItems = <<>>
    /\ seedTypes = <<>>
    /\ seedCats = <<>>

----------------------------------------------------------------------------
\* handler: a request is read, its fields are checked, and the handler runs to
\* its first await. Requests are numbered in the order they are served.

\* The ids a client can have seen in a snapshot, and a value that is no number.
ItemIdInputs == (1..(itemSeq - 1)) \cup {NotANumber}
PatronInputs == PatronNames \cup {""}

\* typeof itemId !== 'number' || isNaN(itemId); !patronName || trim() is empty
InvalidPayload(a, i, p) ==
    \/ i = NotANumber
    \/ a = "checkout" /\ p = ""

Arrives(r) ==
    /\ pc[r] = "idle"
    /\ \A s \in Reqs : s < r => pc[s] # "idle"

Accept(r, a, i, p) ==
    /\ Arrives(r)
    /\ ~InvalidPayload(a, i, p)
    /\ payload' = [payload EXCEPT ![r] = [action |-> a, itemId |-> i, patronName |-> p]]

\* The response is sent and the handler's locals are gone.
Finish(r, response) ==
    /\ pc' = [pc EXCEPT ![r] = "done"]
    /\ res' = [res EXCEPT ![r] = response]
    /\ txLoan' = [txLoan EXCEPT ![r] = Null]

\* The handler moves on to its next await, holding loan id l.
Step(r, label, l) ==
    /\ pc' = [pc EXCEPT ![r] = label]
    /\ txLoan' = [txLoan EXCEPT ![r] = l]
    /\ UNCHANGED res

Goto(r, label) == Step(r, label, txLoan[r])

\* A request the field checks reject is answered 400 before any storage call.
Reject(r) ==
    /\ Arrives(r)
    /\ {b \in Actions \X ItemIdInputs \X PatronInputs :
            InvalidPayload(b[1], b[2], b[3])} # {}
    /\ Finish(r, Fail(400, "validation"))
    /\ UNCHANGED <<item, loan, loanSeq, payload, seedVars, catalogVars, httpVars,
                   snapshot, storage0, reads>>

----------------------------------------------------------------------------
\* case 'checkout'

\* tx.loan.create: the insert draws the next id, then loan_item_id_fkey is checked.
LoanCreate(r) ==
    /\ \E i \in ItemIdInputs, p \in PatronInputs :
         /\ Accept(r, "checkout", i, p)
         /\ IF ItemExists(i)
            THEN KeyShareBlockers(r, i) = {} /\ Step(r, "created", loanSeq)
            ELSE Finish(r, Fail(400, "foreign_key"))
    /\ loanSeq' = loanSeq + 1
    /\ UNCHANGED <<item, loan, seedVars, catalogVars, httpVars,
                   snapshot, storage0, reads>>

\* Mutant: the where clause without `currentLoanId: null`.
CheckoutWhereAnyState(i) == ItemExists(i)

\* where: { id: itemId, currentLoanId: null }
CheckoutWhere(i) == ItemExists(i) /\ item[i].currentLoanId = Null

\* tx.item.updateMany of the checkout: count 1 takes the row lock, count 0 throws.
CheckoutUpdateMany(r) ==
    /\ pc[r] = "created"
    /\ LET i == payload[r].itemId IN
         IF CheckoutWhere(i)
         THEN ItemExclBlockers(r, i) = {} /\ Goto(r, "updated")
         ELSE Goto(r, "abort")
    /\ UNCHANGED <<item, loan, loanSeq, payload, seedVars, catalogVars, httpVars,
                   snapshot, storage0, reads>>

\* The loan row the checkout's transaction inserted.
NewLoanRow(r) ==
    [itemId |-> payload[r].itemId, patronName |-> payload[r].patronName,
     returnedAt |-> Null, checkoutDate |-> Today]

\* Mutant: the updateMany without `id: itemId` in its where clause, on a table
\* without item_current_loan_id_key: every available item gets the loan.
CheckoutCommitEveryAvailable(r) ==
    /\ pc[r] = "updated"
    /\ payload[r].action = "checkout"
    /\ loan' = loan @@ (txLoan[r] :> NewLoanRow(r))
    /\ item' = [j \in DOMAIN item |->
                  IF item[j].currentLoanId = Null
                  THEN [item[j] EXCEPT !.currentLoanId = txLoan[r]]
                  ELSE item[j]]
    /\ Goto(r, "snapshot")
    /\ UNCHANGED <<loanSeq, payload, seedVars, catalogVars, httpVars,
                   snapshot, storage0, reads>>

\* The transaction callback returned: COMMIT publishes the loan and the pointer.
CheckoutCommit(r) ==
    /\ pc[r] = "updated"
    /\ payload[r].action = "checkout"
    /\ loan' = loan @@ (txLoan[r] :> NewLoanRow(r))
    /\ item' = [item EXCEPT ![payload[r].itemId].currentLoanId = txLoan[r]]
    /\ Goto(r, "snapshot")
    /\ UNCHANGED <<loanSeq, payload, seedVars, catalogVars, httpVars,
                   snapshot, storage0, reads>>

\* Mutant: the loan was created outside the transaction and survives the throw.
CheckoutRollbackKeepsLoan(r) ==
    /\ pc[r] = "abort"
    /\ payload[r].action = "checkout"
    /\ loan' = loan @@ (txLoan[r] :> NewLoanRow(r))
    /\ Finish(r, Fail(400, "already_loaned"))
    /\ UNCHANGED <<item, loanSeq, payload, seedVars, catalogVars, httpVars,
                   snapshot, storage0, reads>>

\* throw new Error('Item already loaned or does not exist'): ROLLBACK drops the loan.
CheckoutRollback(r) ==
    /\ pc[r] = "abort"
    /\ payload[r].action = "checkout"
    /\ Finish(r, Fail(400, "already_loaned"))
    /\ UNCHANGED <<item, loan, loanSeq, payload, seedVars, catalogVars, httpVars,
                   snapshot, storage0, reads>>

----------------------------------------------------------------------------
\* case 'return'

\* Mutant: no fail-fast check, the transaction is opened with whatever was read.
FindUniqueNoFailFast(r) ==
    /\ \E i \in ItemIdInputs :
         /\ Accept(r, "return", i, "")
         /\ Step(r, "read", IF ItemExists(i) THEN item[i].currentLoanId ELSE Null)
    /\ UNCHANGED <<item, loan, loanSeq, seedVars, catalogVars, httpVars,
                   snapshot, storage0, reads>>

\* prisma.item.findUnique outside the transaction, then the fail-fast throw.
FindUnique(r) ==
    /\ \E i \in ItemIdInputs :
         /\ Accept(r, "return", i, "")
         /\ IF ItemExists(i) /\ item[i].currentLoanId # Null
            THEN Step(r, "read", item[i].currentLoanId)
            ELSE Finish(r, Fail(400, "no_active_loan"))
    /\ UNCHANGED <<item, loan, loanSeq, seedVars, catalogVars, httpVars,
                   snapshot, storage0, reads>>

\* tx.loan.update({ where: { id }, data: { returnedAt: new Date() } }); a missing
\* row is Prisma's P2025, answered 404 by the catch block.
LoanUpdate(r) ==
    /\ pc[r] = "read"
    /\ IF LoanExists(txLoan[r])
       THEN LoanBlockers(r, txLoan[r]) = {} /\ Goto(r, "closed")
       ELSE Finish(r, Fail(404, "not_found"))
    /\ UNCHANGED <<item, loan, loanSeq, payload, seedVars, catalogVars, httpVars,
                   snapshot, storage0, reads>>

\* Mutant: the where clause without the currentLoanId it read.
ReturnWhereAnyLoan(i, l) == ItemExists(i)

\* where: { id: itemId, currentLoanId: item.currentLoanId! }
ReturnWhere(i, l) == ItemExists(i) /\ item[i].currentLoanId = l

\* tx.item.updateMany of the return: count 1 takes the row lock, count 0 throws.
ReturnUpdateMany(r) ==
    /\ pc[r] = "closed"
    /\ LET i == payload[r].itemId IN
         IF ReturnWhere(i, txLoan[r])
         THEN ItemExclBlockers(r, i) = {} /\ Goto(r, "cleared")
         ELSE Goto(r, "abort")
    /\ UNCHANGED <<item, loan, loanSeq, payload, seedVars, catalogVars, httpVars,
                   snapshot, storage0, reads>>

\* new Date() of request r: no two requests write the same instant.
Now(r) == r

\* Mutant: only the item update is part of the unit that commits.
ReturnCommitItemOnly(r) ==
    /\ pc[r] = "cleared"
    /\ item' = [item EXCEPT ![payload[r].itemId].currentLoanId = Null]
    /\ Goto(r, "snapshot")
    /\ UNCHANGED <<loan, loanSeq, payload, seedVars, catalogVars, httpVars,
                   snapshot, storage0, reads>>

\* Mutant: the return deletes the loan row instead of closing it.
ReturnCommitDeletesLoan(r) ==
    /\ pc[r] = "cleared"
    /\ loan' = Without(loan, {txLoan[r]})
    /\ item' = [item EXCEPT ![payload[r].itemId].currentLoanId = Null]
    /\ Goto(r, "snapshot")
    /\ UNCHANGED <<loanSeq, payload, seedVars, catalogVars, httpVars,
                   snapshot, storage0, reads>>

\* The transaction callback returned: COMMIT publishes returnedAt and the cleared pointer.
ReturnCommit(r) ==
    /\ pc[r] = "cleared"
    /\ loan' = [loan EXCEPT ![txLoan[r]].returnedAt = Now(r)]
    /\ item' = [item EXCEPT ![payload[r].itemId].currentLoanId = Null]
    /\ Goto(r, "snapshot")
    /\ UNCHANGED <<loanSeq, payload, seedVars, catalogVars, httpVars,
                   snapshot, storage0, reads>>

\* Mutant: the loan update ran outside the transaction and survives the throw.
ReturnRollbackKeepsReturnedAt(r) ==
    /\ pc[r] = "abort"
    /\ payload[r].action = "return"
    /\ loan' = [loan EXCEPT ![txLoan[r]].returnedAt = Now(r)]
    /\ Finish(r, Fail(400, "failed_to_return"))
    /\ UNCHANGED <<item, loanSeq, payload, seedVars, catalogVars, httpVars,
                   snapshot, storage0, reads>>

\* throw new Error('Failed to return item. ...'): ROLLBACK drops the written returnedAt.
ReturnRollback(r) ==
    /\ pc[r] = "abort"
    /\ payload[r].action = "return"
    /\ Finish(r, Fail(400, "failed_to_return"))
    /\ UNCHANGED <<item, loan, loanSeq, payload, seedVars, catalogVars, httpVars,
                   snapshot, storage0, reads>>

----------------------------------------------------------------------------
\* case 'deleteItem'

\* prisma.item.delete: DELETE FROM item WHERE id; no row is Prisma's P2025 (404).
ItemDelete(r) ==
    /\ \E i \in ItemIdInputs :
         /\ Accept(r, "deleteItem", i, "")
         /\ IF ItemExists(i)
            THEN ItemExclBlockers(r, i) = {} /\ Goto(r, "cascade")
            ELSE Finish(r, Fail(404, "not_found"))
    /\ UNCHANGED <<item, loan, loanSeq, seedVars, catalogVars, httpVars,
                   snapshot, storage0, reads>>

\* Mutant: only the current loan goes with the item, the history stays.
CascadeOpenOnly(i) == OpenLoans(i)

\* loan_item_id_fkey ON DELETE CASCADE: the loans that go with item i.
Cascade(i) == LoansOf(i)

\* item_current_loan_id_fkey ON DELETE SET NULL, for the loans in gone.
SetNull(items, gone) ==
    [j \in DOMAIN items |->
       IF items[j].currentLoanId \in gone
       THEN [items[j] EXCEPT !.currentLoanId = Null]
       ELSE items[j]]

\* _ItemToCategory_B_fkey ON DELETE CASCADE: the join rows of the items in gone.
UnlinkItems(links, gone) == {ab \in links : ab[2] \notin gone}

\* The end of the DELETE statement: its referential actions run and it commits.
DeleteCascade(r) ==
    /\ pc[r] = "cascade"
    /\ LET i == payload[r].itemId
           gone == Cascade(i)
       IN  /\ \A l \in LoansOf(i) : LoanBlockers(r, l) = {}
           /\ item' = SetNull(Without(item, {i}), gone)
           /\ loan' = Without(loan, gone)
           /\ itemToCategory' = UnlinkItems(itemToCategory, {i})
    /\ Goto(r, "snapshot")
    /\ UNCHANGED <<loanSeq, payload, seedVars, itemType, category, itemTypeSeq,
                   categorySeq, httpVars,
                   snapshot, storage0, reads>>

----------------------------------------------------------------------------
\* Lock waits and deadlock detection of the storage layer.

\* The requests whose locks the next statement of r is waiting for. A request
\* still at its first statement holds no lock, so nothing ever waits for it.
WaitsFor(r) ==
    LET i == payload[r].itemId IN
    CASE pc[r] = "created" /\ CheckoutWhere(i) -> ItemExclBlockers(r, i)
      [] pc[r] = "read" /\ LoanExists(txLoan[r]) -> LoanBlockers(r, txLoan[r])
      [] pc[r] = "closed" /\ ReturnWhere(i, txLoan[r]) -> ItemExclBlockers(r, i)
      [] pc[r] = "cascade" -> UNION {LoanBlockers(r, l) : l \in LoansOf(i)}
      [] OTHER -> {}

RECURSIVE WaitClosure(_, _)
WaitClosure(S, n) ==
    IF n = 0 THEN S
    ELSE WaitClosure(S \cup UNION {WaitsFor(s) : s \in S}, n - 1)

\* Mutant: a storage layer without deadlock detection.
DeadlockedNever(r) == FALSE

\* r waits, directly or through others, for a request that waits for r.
Deadlocked(r) == r \in WaitClosure(WaitsFor(r), MaxReq)

\* The deadlock detector aborts r's statement and transaction (error 40P01).
DeadlockAbort(r) ==
    /\ WaitsFor(r) # {}
    /\ Deadlocked(r)
    /\ Finish(r, Fail(400, "deadlock"))
    /\ UNCHANGED <<item, loan, loanSeq, payload, seedVars, catalogVars, httpVars,
                   snapshot, storage0, reads>>

----------------------------------------------------------------------------
\* getSnapshot

\* The ids in S in ascending order (orderBy: { id: 'asc' }; the scan order of
\* a table whose rows are only ever inserted and deleted).
RECURSIVE Ascending(_)
Ascending(S) ==
    IF S = {} THEN <<>>
    ELSE LET m == CHOOSE x \in S : \A y \in S : x <= y
         IN  <<m>> \o Ascending(S \ {m})

\* Milliseconds of a day: a DATE column is read as the Date of its UTC midnight.
MsPerDay == 86400000
DateOf(day) == day * MsPerDay

\* new Date(d).toISOString(): the text YYYY-MM-DDThh:mm:ss.sssZ, as its date
\* part and its time part.
ToISOString(d) == [date |-> d \div MsPerDay, time |-> d % MsPerDay]

NoLoan == [id |-> Null]

\* Mutant: the relation follows loan.item_id, newest loan first.
CurrentLoanByItem(i) ==
    IF LoansOf(i) = {} THEN NoLoan
    ELSE LET l == CHOOSE x \in LoansOf(i) : \A y \in LoansOf(i) : y <= x
         IN  [id |-> l, patronName |-> loan[l].patronName,
              checkoutDate |-> ToISOString(DateOf(loan[l].checkoutDate))]

\* currentLoan: { select: { id, patronName, checkoutDate } }, the loan row
\* item.current_loan_id references, its date as ISO text; null without one.
CurrentLoan(i) ==
    LET l == item[i].currentLoanId IN
    IF l # Null /\ LoanExists(l)
    THEN [id |-> l, patronName |-> loan[l].patronName,
          checkoutDate |-> ToISOString(DateOf(loan[l].checkoutDate))]
    ELSE NoLoan

SnapshotItem(i) ==
    [id |-> i,
     itemType |-> item[i].itemTypeId,
     categories |-> {ab[1] : ab \in {cd \in itemToCategory : cd[2] = i}},
     currentLoan |-> CurrentLoan(i)]

Rows(table) ==
    LET ids == Ascending(DOMAIN table)
    IN  [k \in 1..Len(ids) |-> [id |-> ids[k], row |-> table[ids[k]]]]

GetSnapshot ==
    LET ids == Ascending(DOMAIN item) IN
    [itemTypes |-> Rows(itemType),
     categories |-> Rows(category),
     items |-> [k \in 1..Len(ids) |-> SnapshotItem(ids[k])]]

----------------------------------------------------------------------------
\* const snapshot = await getSnapshot(); res.status(200); the page keeps the
\* snapshot of the response.

\* Mutant: a cached view, read once and served ever after.
RespondCached(r) ==
    /\ pc[r] = "snapshot"
    /\ Finish(r, Ok)
    /\ snapshot' = IF snapshot = NoSnapshot THEN GetSnapshot ELSE snapshot
    /\ UNCHANGED <<item, loan, loanSeq, payload, seedVars, catalogVars, httpVars,
                   storage0, reads>>

Respond(r) ==
    /\ pc[r] = "snapshot"
    /\ Finish(r, Ok)
    /\ snapshot' = GetSnapshot
    /\ UNCHANGED <<item, loan, loanSeq, payload, seedVars, catalogVars, httpVars,
                   storage0, reads>>

\* getSnapshot query by query: Promise.all starts the three findMany calls
\* together, outside any transaction, and each is a statement of its own that
\* reads the tables as committed when it runs.

Queries == {"itemTypes", "categories", "items"}

\* Query k of request r's getSnapshot has not resolved yet.
Pending(r, k) == pc[r] = "snapshot" /\ k \notin reads[r].got

\* Query k of request r's getSnapshot resolves with result rows.
Resolved(r, k, rows) ==
    [reads EXCEPT ![r] = [[@ EXCEPT !.got = @ \cup {k}] EXCEPT ![k] = rows]]

\* prisma.itemType.findMany
ReadItemTypes(r) ==
    /\ Pending(r, "itemTypes")
    /\ reads' = Resolved(r, "itemTypes", GetSnapshot.itemTypes)
    /\ UNCHANGED <<item, loan, loanSeq, pc, payload, txLoan, res, seedVars,
                   catalogVars, httpVars, snapshot, storage0>>

\* prisma.category.findMany
ReadCategories(r) ==
    /\ Pending(r, "categories")
    /\ reads' = Resolved(r, "categories", GetSnapshot.categories)
    /\ UNCHANGED <<item, loan, loanSeq, pc, payload, txLoan, res, seedVars,
                   catalogVars, httpVars, snapshot, storage0>>

\* prisma.item.findMany with its nested selects, ordered by id
ReadItems(r) ==
    /\ Pending(r, "items")
    /\ reads' = Resolved(r, "items", GetSnapshot.items)
    /\ UNCHANGED <<item, loan, loanSeq, pc, payload, txLoan, res, seedVars,
                   catalogVars, httpVars, snapshot, storage0>>

\* return { itemTypes, categories, items }; res.status(200)
RespondRead(r) ==
    /\ pc[r] = "snapshot"
    /\ reads[r].got = Queries
    /\ Finish(r, Ok)
    /\ snapshot' = [k \in Queries |-> reads[r][k]]
    /\ reads' = [reads EXCEPT ![r] = NoReads]
    /\ UNCHANGED <<item, loan, loanSeq, payload, seedVars, catalogVars, httpVars,
                   storage0>>

\* getSnapshot rejects (a storage error): the catch block answers 400.
SnapshotFails(r) ==
    /\ pc[r] = "snapshot"
    /\ Finish(r, Fail(400, "storage_error"))
    /\ UNCHANGED <<item, loan, loanSeq, payload, seedVars, catalogVars, httpVars,
                   snapshot, storage0, reads>>

----------------------------------------------------------------------------
Next ==
    \E r \in Reqs :
        \/ Reject(r)
        \/ LoanCreate(r)
        \/ CheckoutUpdateMany(r)
        \/ CheckoutCommit(r)
        \/ CheckoutRollback(r)
        \/ FindUnique(r)
        \/ LoanUpdate(r)
        \/ ReturnUpdateMany(r)
        \/ ReturnCommit(r)
        \/ ReturnRollback(r)
        \/ ItemDelete(r)
        \/ DeleteCascade(r)
        \/ DeadlockAbort(r)
        \/ Respond(r)

Spec == Init /\ [][Next]_vars

\* The statements and responses of a request that was received: the storage
\* layer executes a statement once the locks it needs are free, aborts a
\* statement in a deadlock, and the handler then answers.
Continue(r) ==
    \/ CheckoutUpdateMany(r)
    \/ CheckoutCommit(r)
    \/ CheckoutRollback(r)
    \/ LoanUpdate(r)
    \/ ReturnUpdateMany(r)
    \/ ReturnCommit(r)
    \/ ReturnRollback(r)
    \/ DeleteCascade(r)
    \/ DeadlockAbort(r)
    \/ Respond(r)

\* Number of requests in a run of the fairly scheduled handler.
MaxLiveReq == 2

LiveReqs == 1..MaxLiveReq

NextLive ==
    \E r \in LiveReqs :
        \/ Reject(r)
        \/ LoanCreate(r)
        \/ FindUnique(r)
        \/ ItemDelete(r)
        \/ Continue(r)

\* The handler over a storage layer that schedules every request fairly.
SpecLive == Init /\ [][NextLive]_vars /\ \A r \in LiveReqs : WF_vars(Continue(r))

\* The same handler over a storage layer whose reads may fail.
NextFault == Next \/ \E r \in Reqs : SnapshotFails(r)

SpecFault == Init /\ [][NextFault]_vars

----------------------------------------------------------------------------
\* The HTTP request as the handler sees it.  Text (a header, a string field)
\* is a sequence of characters; a body field is a JavaScript value.

Undefined == [t |-> "undefined"]
Str(s) == [t |-> "string", s |-> s]
Num(n) == [t |-> "number", n |-> n, nan |-> FALSE]
NaN == [t |-> "number", n |-> 0, nan |-> TRUE]

\* !v
Falsy(v) ==
    \/ v.t = "undefined"
    \/ v.t = "string" /\ v.s = <<>>
    \/ v.t = "number" /\ (v.nan \/ v.n = 0)

RECURSIVE TrimStart(_)
TrimStart(s) ==
    IF s # <<>> /\ Head(s) = " " THEN TrimStart(Tail(s)) ELSE s

RECURSIVE TrimEnd(_)
TrimEnd(s) ==
    IF s # <<>> /\ s[Len(s)] = " " THEN TrimEnd(SubSeq(s, 1, Len(s) - 1)) ELSE s

\* s.trim()
Trim(s) == TrimEnd(TrimStart(s))

\* Mutant: the check without the trim.
BlankNoTrim(v) == Falsy(v)

\* !v || v.trim().length === 0
Blank(v) == Falsy(v) \/ (v.t = "string" /\ Len(Trim(v.s)) = 0)

\* v.trim() of a truthy value that is no string: TypeError, caught, status 400.
TrimThrows(v) == ~Falsy(v) /\ v.t # "string"

\* typeof v !== 'number' || isNaN(v)
NotNumber(v) == v.t # "number" \/ v.nan

\* s.split(' ')
RECURSIVE Split(_)
Split(s) ==
    IF \A k \in 1..Len(s) : s[k] # " "
    THEN <<s>>
    ELSE LET k == CHOOSE k \in 1..Len(s) :
                     s[k] = " " /\ \A j \in 1..(k - 1) : s[j] # " "
         IN  <<SubSeq(s, 1, k - 1)>> \o Split(SubSeq(s, k + 1, Len(s)))

\* s.startsWith(prefix)
StartsWith(s, prefix) ==
    Len(s) >= Len(prefix) /\ SubSeq(s, 1, Len(prefix)) = prefix

Bearer == <<"B", "e", "a", "r", "e", "r", " ">>

\* The authorization header; <<>> is the absent header (undefined, falsy).
\* !authHeader || !authHeader.startsWith('Bearer ') || token !== env is false.
Authorized(h, env) ==
    /\ h # <<>>
    /\ StartsWith(h, Bearer)
    /\ Len(Split(h)) >= 2
    /\ Split(h)[2] = env

\* The fields a payload may carry; a field the client left out reads undefined.
FieldNames ==
    {"code", "name", "parentId", "title", "itemTypeId", "requestedBy",
     "itemId", "categoryId", "patronName", "id"}

Object(f) ==
    [t |-> "object",
     f |-> [k \in FieldNames |-> IF k \in DOMAIN f THEN f[k] ELSE Undefined]]

\* req.body; action "" is a missing action.
Body(a, f) == [action |-> a, payload |-> Object(f)]

\* The check of a text field and its throw: "ok" when the field passes.
TextCheck(v) ==
    IF TrimThrows(v) THEN "type_error"
    ELSE IF Blank(v) THEN "validation"
    ELSE "ok"

NumberCheck(v) == IF NotNumber(v) THEN "validation" ELSE "ok"

\* The first check of a case that fails.
RECURSIVE FirstFailure(_)
FirstFailure(checks) ==
    IF checks = <<>> THEN "ok"
    ELSE IF Head(checks) # "ok" THEN Head(checks)
    ELSE FirstFailure(Tail(checks))

\* `!action || !payload`, then the field checks of the action's case.
Validation(b) ==
    IF b.action = "" \/ b.payload.t = "undefined" THEN "required"
    ELSE LET f == b.payload.f IN
         CASE b.action = "createItemType" ->
                FirstFailure(<<TextCheck(f.code), TextCheck(f.name)>>)
           [] b.action = "createCategory" ->
                FirstFailure(<<TextCheck(f.code), TextCheck(f.name)>>)
           [] b.action = "createItem" ->
                FirstFailure(<<TextCheck(f.title), NumberCheck(f.itemTypeId)>>)
           [] b.action \in {"linkCategory", "unlinkCategory"} ->
                FirstFailure(<<NumberCheck(f.itemId), NumberCheck(f.categoryId)>>)
           [] b.action = "checkout" ->
                FirstFailure(<<NumberCheck(f.itemId), TextCheck(f.patronName)>>)
           [] b.action = "return" -> NumberCheck(f.itemId)
           [] b.action = "deleteItem" -> NumberCheck(f.id)
           [] OTHER -> "unknown"

\* What the handler does with request q before its first storage call.
Outcome(q, env) ==
    IF env = <<>> THEN "misconfigured"
    ELSE IF q.method = "GET" THEN "get"
    ELSE IF q.method # "POST" THEN "method"
    ELSE IF ~Authorized(q.authorization, env) THEN "unauthorized"
    ELSE Validation(q.body)

\* Request q is the next request the handler serves.
Serve(r, q) ==
    /\ Arrives(r)
    /\ http' = [http EXCEPT ![r] = q]

\* if (!process.env.NEXT_PUBLIC_DEMO_AUTH_TOKEN) return res.status(500)
ServerError(r, q) ==
    /\ Serve(r, q)
    /\ Outcome(q, envToken) = "misconfigured"
    /\ Finish(r, Fail(500, "misconfigured"))
    /\ UNCHANGED <<item, loan, loanSeq, payload, seedVars, catalogVars, envToken,
                   snapshot, storage0, reads>>

\* if (req.method === 'GET'): the snapshot is read next.
Get(r, q) ==
    /\ Serve(r, q)
    /\ Outcome(q, envToken) = "get"
    /\ Goto(r, "snapshot")
    /\ UNCHANGED <<item, loan, loanSeq, payload, seedVars, catalogVars, envToken,
                   snapshot, storage0, reads>>

\* if (req.method !== 'POST') return res.status(405)
MethodNotAllowed(r, q) ==
    /\ Serve(r, q)
    /\ Outcome(q, envToken) = "method"
    /\ Finish(r, Fail(405, "method"))
    /\ UNCHANGED <<item, loan, loanSeq, payload, seedVars, catalogVars, envToken,
                   snapshot, storage0, reads>>

\* return res.status(401)
Unauthorized(r, q) ==
    /\ Serve(r, q)
    /\ Outcome(q, envToken) = "unauthorized"
    /\ Finish(r, Fail(401, "unauthorized"))
    /\ UNCHANGED <<item, loan, loanSeq, payload, seedVars, catalogVars, envToken,
                   snapshot, storage0, reads>>

\* A return res.status(400) of the body and field checks, the default case,
\* or the TypeError of a check, which the catch block answers 400.
BadRequest(r, q) ==
    /\ Serve(r, q)
    /\ Outcome(q, envToken) \in {"required", "validation", "type_error", "unknown"}
    /\ Finish(r, Fail(400, Outcome(q, envToken)))
    /\ UNCHANGED <<item, loan, loanSeq, payload, seedVars, catalogVars, envToken,
                   snapshot, storage0, reads>>

\* Request q reaches the storage call of case a.
Dispatch(r, q, a) ==
    /\ Serve(r, q)
    /\ Outcome(q, envToken) = "ok"
    /\ q.body.action = a

----------------------------------------------------------------------------
\* case 'createItemType'

\* Mutant: tables without the unique index on code.
CodeTakenNever(table, code) == FALSE

\* category_code_key, item_type_code_key: a row of the table has this code.
CodeTaken(table, code) == \E k \in DOMAIN table : table[k].code = code

\* prisma.itemType.create: the insert draws the next id; a code already in
\* item_type_code_key is Prisma's P2002, answered 400.
CreateItemType(r, q) ==
    /\ Dispatch(r, q, "createItemType")
    /\ LET code == q.body.payload.f.code.s IN
         IF CodeTaken(itemType, code)
         THEN /\ Finish(r, Fail(400, "unique"))
              /\ UNCHANGED itemType
         ELSE /\ itemType' = itemType @@ (itemTypeSeq :> [code |-> code])
              /\ Goto(r, "snapshot")
    /\ itemTypeSeq' = itemTypeSeq + 1
    /\ UNCHANGED <<item, loan, loanSeq, payload, seedVars, category, itemToCategory,
                   categorySeq, envToken,
                   snapshot, storage0, reads>>

----------------------------------------------------------------------------
\* case 'createCategory'

\* parentId ?? null
ParentOf(v) == IF v.t = "number" THEN v.n ELSE Null

\* prisma.category.create: a code already in category_code_key is P2002, a
\* parentId with no category row fails category_parent_id_fkey (P2003); the
\* catch block answers both 400. The foreign key is checked once the row is
\* inserted, so a parentId equal to the id the insert draws names the new row
\* itself and passes.
CreateCategory(r, q) ==
    /\ Dispatch(r, q, "createCategory")
    /\ LET code == q.body.payload.f.code.s
           parent == ParentOf(q.body.payload.f.parentId)
       IN  IF CodeTaken(category, code)
           THEN /\ Finish(r, Fail(400, "unique"))
                /\ UNCHANGED category
           ELSE IF parent # Null /\ parent \notin DOMAIN category \cup {categorySeq}
           THEN /\ Finish(r, Fail(400, "foreign_key"))
                /\ UNCHANGED category
           ELSE /\ category' = category @@
                      (categorySeq :> [code |-> code, parentId |-> parent])
                /\ Goto(r, "snapshot")
    /\ categorySeq' = categorySeq + 1
    /\ UNCHANGED <<item, loan, loanSeq, payload, seedVars, itemType, itemToCategory,
                   itemTypeSeq, envToken,
                   snapshot, storage0, reads>>

----------------------------------------------------------------------------
\* case 'createItem'

\* prisma.item.create: an itemTypeId with no item_type row fails
\* item_item_type_id_fkey (P2003), answered 400.
CreateItem(r, q) ==
    /\ Dispatch(r, q, "createItem")
    /\ LET type == q.body.payload.f.itemTypeId.n IN
         IF type \in DOMAIN itemType
         THEN /\ item' = item @@
                    (itemSeq :> [currentLoanId |-> Null, itemTypeId |-> type])
              /\ Goto(r, "snapshot")
         ELSE /\ Finish(r, Fail(400, "foreign_key"))
              /\ UNCHANGED item
    /\ itemSeq' = itemSeq + 1
    /\ UNCHANGED <<loan, loanSeq, payload, seed, seedLoan, seedItems, seedTypes,
                   seedCats, catalogVars, envToken,
                   snapshot, storage0, reads>>

----------------------------------------------------------------------------
\* cases 'linkCategory' and 'unlinkCategory'

\* Mutant: connect replaces the item's categories by the one category.
ConnectReplace(links, c, i) == {ab \in links : ab[2] # i} \cup {<<c, i>>}

\* connect: INSERT INTO "_ItemToCategory" ("A", "B") ... ON CONFLICT DO NOTHING,
\* A the category and B the item; _ItemToCategory_AB_pkey keeps one row a pair.
Connect(links, c, i) == links \cup {<<c, i>>}

\* disconnect: DELETE FROM "_ItemToCategory" WHERE "A" = c AND "B" = i.
Disconnect(links, c, i) == links \ {<<c, i>>}

\* prisma.item.update({ where: { id }, data: { categories: { connect } } }):
\* no item row, or no category row to connect, is P2025, answered 404; the
\* join row is inserted unless it is there already.
LinkCategory(r, q) ==
    /\ Dispatch(r, q, "linkCategory")
    /\ LET i == q.body.payload.f.itemId.n
           c == q.body.payload.f.categoryId.n
       IN  IF ItemExists(i) /\ c \in DOMAIN category
           THEN /\ itemToCategory' = Connect(itemToCategory, c, i)
                /\ Goto(r, "snapshot")
           ELSE /\ Finish(r, Fail(404, "not_found"))
                /\ UNCHANGED itemToCategory
    /\ UNCHANGED <<item, loan, loanSeq, payload, seedVars, itemType, category,
                   itemTypeSeq, categorySeq, envToken,
                   snapshot, storage0, reads>>

\* prisma.item.update({ where: { id }, data: { categories: { disconnect } } }):
\* no item row is P2025; the join row is deleted if there is one.
UnlinkCategory(r, q) ==
    /\ Dispatch(r, q, "unlinkCategory")
    /\ LET i == q.body.payload.f.itemId.n
           c == q.body.payload.f.categoryId.n
       IN  IF ItemExists(i)
           THEN /\ itemToCategory' = Disconnect(itemToCategory, c, i)
                /\ Goto(r, "snapshot")
           ELSE /\ Finish(r, Fail(404, "not_found"))
                /\ UNCHANGED itemToCategory
    /\ UNCHANGED <<item, loan, loanSeq, payload, seedVars, itemType, category,
                   itemTypeSeq, categorySeq, envToken,
                   snapshot, storage0, reads>>

----------------------------------------------------------------------------
\* The handler under arbitrary HTTP requests: any method, any authorization
\* header, any body.  Accepted checkout, return and deleteItem requests are
\* the subject of Spec; here such a request is sent only with a body its
\* field checks refuse.

\* Number of HTTP requests served in one run.
MaxHttpReq == 1
\* Longest text sent in a text field.
MaxText == 1
\* An id that no row of any table has.
NoSuchId == 99

HttpReqs == 1..MaxHttpReq

TextChars == {" ", "a"}
Texts == UNION {[1..n -> TextChars] : n \in 0..MaxText}

\* Values sent in a text field and in an id field.
TextValues == {Undefined, Num(1)} \cup {Str(s) : s \in Texts}
NumberValues == {Undefined, NaN, Str(<<"a">>), Num(1), Num(NoSuchId)}

\* A well-formed text and a well-formed id (item 1, item type 1, category 1).
ValidText == Str(<<"a">>)
ValidId == Num(1)

\* Pairs of field values: the first field ranges over every value beside a
\* second that is well-formed or (for a text or id in second place) absent,
\* and the second ranges over every value beside a well-formed first.
TextPairs == (TextValues \X {ValidText, Undefined}) \cup ({ValidText} \X TextValues)
TextIdPairs == (TextValues \X {ValidId, Undefined}) \cup ({ValidText} \X NumberValues)
IdPairs == (NumberValues \X {ValidId, Undefined}) \cup ({ValidId} \X NumberValues)
IdTextPairs == (NumberValues \X {ValidText, Undefined}) \cup ({ValidId} \X TextValues)

HttpBodies ==
    {[action |-> "createItemType", payload |-> Undefined],
     Body("", <<>>), Body("renameItem", <<>>)}
    \cup {Body(a, ("code" :> p[1]) @@ ("name" :> p[2])) :
            a \in {"createItemType", "createCategory"}, p \in TextPairs}
    \cup {Body("createItem", ("title" :> p[1]) @@ ("itemTypeId" :> p[2])) :
            p \in TextIdPairs}
    \cup {Body(a, ("itemId" :> p[1]) @@ ("categoryId" :> p[2])) :
            a \in {"linkCategory", "unlinkCategory"}, p \in IdPairs}
    \cup {b \in {Body("checkout", ("itemId" :> p[1]) @@ ("patronName" :> p[2])) :
                    p \in IdTextPairs} \cup
                {Body("return", "itemId" :> i) : i \in NumberValues} \cup
                {Body("deleteItem", "id" :> i) : i \in NumberValues} :
            Validation(b) # "ok"}

\* Authorization headers: none, the exact one, and near misses.
Headers ==
    {<<>>,
     Bearer \o Token,
     Bearer \o Token \o <<" ", "x">>,
     Bearer \o Token \o <<"x">>,
     Bearer \o <<" ">> \o Token,
     Bearer,
     <<"B", "e", "a", "r", "e", "r">> \o Token,
     <<"B", "a", "s", "i", "c", " ">> \o Token,
     Token}

AnItemType == Body("createItemType", ("code" :> Str(<<"a">>)) @@ ("name" :> Str(<<"a">>)))

HttpRequests ==
    {[method |-> m, authorization |-> h, body |-> NoBody] :
        m \in {"GET", "PUT"}, h \in {<<>>, Bearer \o Token}}
    \cup {[method |-> "POST", authorization |-> h, body |-> AnItemType] : h \in Headers}
    \cup {[method |-> "POST", authorization |-> Bearer \o Token, body |-> b] :
            b \in HttpBodies}

InitHttp ==
    /\ storage0 = InitStorage(SeedOnLoan)
    /\ item = storage0.item
    /\ loan = storage0.loan
    /\ loanSeq = MaxItem + 1
    /\ itemSeq = MaxItem + 1
    /\ InitRequests
    /\ InitCatalog
    /\ envToken \in {<<>>, Token}
    /\ seed = "off"
    /\ seedLoan = Null
    /\ seedItems = <<>>
    /\ seedTypes = <<>>
    /\ seedCats = <<>>

NextHttp ==
    \E r \in HttpReqs :
        \/ \E q \in HttpRequests :
             \/ ServerError(r, q)
             \/ Get(r, q)
             \/ MethodNotAllowed(r, q)
             \/ Unauthorized(r, q)
             \/ BadRequest(r, q)
             \/ CreateItemType(r, q)
             \/ CreateCategory(r, q)
             \/ CreateItem(r, q)
             \/ LinkCategory(r, q)
             \/ UnlinkCategory(r, q)
        \/ Respond(r)

SpecHttp == InitHttp /\ [][NextHttp]_vars

----------------------------------------------------------------------------
\* The handler with its requests sent one at a time: a request is sent only
\* after every earlier one was answered, as the page does (busy).

Quiet == \A s \in Reqs : pc[s] \in {"idle", "done"}

\* The page's refresh: GET /api/actions, no credential.
Refresh == [method |-> "GET", authorization |-> <<>>, body |-> NoBody]

NextSeq ==
    \E r \in Reqs :
        \/ Quiet /\ Reject(r)
        \/ Quiet /\ LoanCreate(r)
        \/ Quiet /\ FindUnique(r)
        \/ Quiet /\ ItemDelete(r)
        \/ Quiet /\ Get(r, Refresh)
        \/ CheckoutUpdateMany(r)
        \/ CheckoutCommit(r)
        \/ CheckoutRollback(r)
        \/ LoanUpdate(r)
        \/ ReturnUpdateMany(r)
        \/ ReturnCommit(r)
        \/ DeleteCascade(r)
        \/ Respond(r)

SpecSeq == Init /\ [][NextSeq]_vars

----------------------------------------------------------------------------
\* The seed script (main): one autocommitted statement per step, run against
\* the database the handler is serving.  A statement waits for the row locks
\* it needs; the script holds no lock between statements.

\* The process id of the seed script in the lock operators (no request).
SeedProc == 0
\* items.length of the seed data.
SeedItemCount == 3
\* loans[0].itemId and the one item of the seed data with a currentLoanId.
SeedLoanItem == 1

NoLocksOn(is, ls) ==
    /\ \A i \in is : ItemExclBlockers(SeedProc, i) = {}
    /\ \A l \in ls : LoanBlockers(SeedProc, l) = {}

SeedGoto(label) ==
    /\ seed' = label
    /\ UNCHANGED <<seedLoan, seedItems, seedTypes, seedCats, itemSeq>>

\* await prisma.loan.deleteMany({}), with ON DELETE SET NULL on item.
SeedClearLoans ==
    /\ seed = "clearLoans"
    /\ NoLocksOn({i \in DOMAIN item : item[i].currentLoanId # Null}, DOMAIN loan)
    /\ loan' = Without(loan, DOMAIN loan)
    /\ item' = SetNull(item, DOMAIN loan)
    /\ SeedGoto("clearItems")
    /\ UNCHANGED <<loanSeq, pc, payload, txLoan, res, catalogVars, httpVars,
                   snapshot, storage0, reads>>

\* await prisma.item.deleteMany({}), with ON DELETE CASCADE on loan.
SeedClearItems ==
    /\ seed = "clearItems"
    /\ NoLocksOn(DOMAIN item, DOMAIN loan)
    /\ loan' = Without(loan, UNION {Cascade(i) : i \in DOMAIN item})
    /\ item' = Without(item, DOMAIN item)
    /\ itemToCategory' = UnlinkItems(itemToCategory, DOMAIN item)
    /\ SeedGoto("clearCategories")
    /\ UNCHANGED <<loanSeq, pc, payload, txLoan, res, itemType, category,
                   itemTypeSeq, categorySeq, httpVars,
                   snapshot, storage0, reads>>

\* await prisma.category.deleteMany({}): one statement removes every category,
\* parents and children alike, and _ItemToCategory_A_fkey cascades.
SeedClearCategories ==
    /\ seed = "clearCategories"
    /\ category' = Without(category, DOMAIN category)
    /\ itemToCategory' = {}
    /\ SeedGoto("clearItemTypes")
    /\ UNCHANGED <<item, loan, loanSeq, pc, payload, txLoan, res, itemType,
                   itemTypeSeq, categorySeq, httpVars,
                   snapshot, storage0, reads>>

\* Mutant: item types without the foreign key of item.
ReferencedNever(t) == FALSE

\* item_item_type_id_fkey: an item row references item type t.
Referenced(t) == \E i \in DOMAIN item : item[i].itemTypeId = t

\* await prisma.itemType.deleteMany({}): item_item_type_id_fkey ON DELETE
\* RESTRICT refuses the statement while an item references one of the rows,
\* and main() rejects.
SeedClearItemTypes ==
    /\ seed = "clearItemTypes"
    /\ IF \A t \in DOMAIN itemType : ~Referenced(t)
       THEN /\ itemType' = Without(itemType, DOMAIN itemType)
            /\ SeedGoto("seedItemTypes")
       ELSE /\ SeedGoto("failed")
            /\ UNCHANGED itemType
    /\ UNCHANGED <<item, loan, loanSeq, pc, payload, txLoan, res, category,
                   itemToCategory, itemTypeSeq, categorySeq, httpVars,
                   snapshot, storage0, reads>>

\* Step 2: prisma.itemType.create for the next item type of the seed data;
\* itemTypeMap records the generated id.
SeedItemType ==
    /\ seed = "seedItemTypes"
    /\ LET row == SeedItemTypes[Len(seedTypes) + 1] IN
         IF CodeTaken(itemType, row.code)
         THEN /\ seed' = "failed"
              /\ UNCHANGED <<itemType, seedTypes>>
         ELSE /\ itemType' = itemType @@ (itemTypeSeq :> row)
              /\ seedTypes' = Append(seedTypes, itemTypeSeq)
              /\ seed' = IF Len(seedTypes') = Len(SeedItemTypes)
                         THEN "seedCategories" ELSE "seedItemTypes"
    /\ itemTypeSeq' = itemTypeSeq + 1
    /\ UNCHANGED <<item, loan, loanSeq, pc, payload, txLoan, res, category,
                   itemToCategory, categorySeq, seedLoan, seedItems, seedCats,
                   itemSeq, httpVars,
                   snapshot, storage0, reads>>

\* Step 3: prisma.category.create for the next category of the seed data, its
\* parentId looked up in categoryMap.
SeedCategory ==
    /\ seed = "seedCategories"
    /\ LET row == SeedCategories[Len(seedCats) + 1]
           parent == IF row.parentId = Null THEN Null ELSE seedCats[row.parentId]
       IN  IF CodeTaken(category, row.code)
              \/ (parent # Null /\ parent \notin DOMAIN category)
           THEN /\ seed' = "failed"
                /\ UNCHANGED <<category, seedCats>>
           ELSE /\ category' = category @@
                      (categorySeq :> [code |-> row.code, parentId |-> parent])
                /\ seedCats' = Append(seedCats, categorySeq)
                /\ seed' = IF Len(seedCats') = Len(SeedCategories)
                           THEN "seedItems" ELSE "seedCategories"
    /\ categorySeq' = categorySeq + 1
    /\ UNCHANGED <<item, loan, loanSeq, pc, payload, txLoan, res, itemType,
                   itemToCategory, itemTypeSeq, seedLoan, seedItems, seedTypes,
                   itemSeq, httpVars,
                   snapshot, storage0, reads>>

\* Step 4: prisma.item.create for the next item of the seed data, without
\* currentLoanId, connected to its categories; itemMap records the generated
\* id. A missing item type or category makes main() reject.
SeedItem ==
    /\ seed = "seedItems"
    /\ LET k == Len(seedItems) + 1
           type == seedTypes[SeedItemTypeId(k)]
           cats == {seedCats[ab[1]] : ab \in {cd \in SeedDataLinks : cd[2] = k}}
       IN  IF type \in DOMAIN itemType /\ cats \subseteq DOMAIN category
           THEN /\ item' = item @@
                      (itemSeq :> [currentLoanId |-> Null, itemTypeId |-> type])
                /\ itemToCategory' = itemToCategory \cup {<<c, itemSeq>> : c \in cats}
                /\ seedItems' = Append(seedItems, itemSeq)
                /\ seed' = IF Len(seedItems') = SeedItemCount
                           THEN "seedLoans" ELSE "seedItems"
           ELSE /\ seed' = "failed"
                /\ UNCHANGED <<item, itemToCategory, seedItems>>
    /\ itemSeq' = itemSeq + 1
    /\ UNCHANGED <<loan, loanSeq, seedLoan, seedTypes, seedCats, pc, payload, txLoan,
                   res, itemType, category, itemTypeSeq, categorySeq, httpVars,
                   snapshot, storage0, reads>>

\* Step 5: prisma.loan.create with returnedAt: null; a missing item fails the
\* foreign key and main() rejects.
SeedLoan ==
    /\ seed = "seedLoans"
    /\ LET i == seedItems[SeedLoanItem] IN
         IF ItemExists(i)
         THEN /\ KeyShareBlockers(SeedProc, i) = {}
              /\ loan' = loan @@ (loanSeq :>
                    [itemId |-> i, patronName |-> "Arthur Dent", returnedAt |-> Null,
                     checkoutDate |-> SeedCheckoutDate])
              /\ seedLoan' = loanSeq
              /\ seed' = "linkLoans"
         ELSE /\ seed' = "failed"
              /\ UNCHANGED <<loan, seedLoan>>
    /\ loanSeq' = loanSeq + 1
    /\ UNCHANGED <<item, seedItems, seedTypes, seedCats, itemSeq, pc, payload, txLoan,
                   res, catalogVars, httpVars,
                   snapshot, storage0, reads>>

\* Step 6: prisma.item.update({ where: { id }, data: { currentLoanId } }).
SeedLink ==
    /\ seed = "linkLoans"
    /\ LET i == seedItems[SeedLoanItem] IN
         IF ItemExists(i)
         THEN /\ ItemExclBlockers(SeedProc, i) = {}
              /\ item' = [item EXCEPT ![i].currentLoanId = seedLoan]
              /\ SeedGoto("done")
         ELSE /\ SeedGoto("failed")
              /\ UNCHANGED item
    /\ UNCHANGED <<loan, loanSeq, pc, payload, txLoan, res, catalogVars, httpVars,
                   snapshot, storage0, reads>>

SeedNext ==
    \/ SeedClearLoans
    \/ SeedClearItems
    \/ SeedClearCategories
    \/ SeedClearItemTypes
    \/ SeedItemType
    \/ SeedCategory
    \/ SeedItem
    \/ SeedLoan
    \/ SeedLink

\* `npx prisma db seed` is started while the handler serves requests.
InitSeed ==
    /\ storage0 = InitStorage(SeedOnLoan)
    /\ item = storage0.item
    /\ loan = storage0.loan
    /\ loanSeq = MaxItem + 1
    /\ itemSeq = MaxItem + 1
    /\ InitRequests
    /\ InitCatalog
    /\ envToken = Token
    /\ seed = "clearLoans"
    /\ seedLoan = Null
    /\ seedItems = <<>>
    /\ seedTypes = <<>>
    /\ seedCats = <<>>

SpecSeed == InitSeed /\ [][Next \/ SeedNext]_vars

----------------------------------------------------------------------------
\* The catalog actions served concurrently: every request is an authorized
\* POST whose body passes the field checks, and each storage call is one
\* autocommitted statement.

\* Number of catalog requests in one run.
MaxCatReq == 2

CatReqs == 1..MaxCatReq

\* A code that no row of the seed data has.
NewCode == <<"a">>

Post(b) == [method |-> "POST", authorization |-> Bearer \o Token, body |-> b]

CreateItemTypeRequests ==
    {Post(Body("createItemType", ("code" :> Str(c)) @@ ("name" :> ValidText))) :
        c \in {NewCode, SeedItemTypes[1].code}}

CreateCategoryRequests ==
    {Post(Body("createCategory",
               ("code" :> Str(c)) @@ ("name" :> ValidText) @@ ("parentId" :> p))) :
        c \in {NewCode, SeedCategories[1].code},
        p \in {Undefined, Num(1), Num(Len(SeedCategories) + 1)}}

CreateItemRequests ==
    {Post(Body("createItem", ("title" :> ValidText) @@ ("itemTypeId" :> Num(t)))) :
        t \in {1, NoSuchId}}

LinkRequest(a, i, c) == Post(Body(a, ("itemId" :> Num(i)) @@ ("categoryId" :> Num(c))))

LinkRequests ==
    {LinkRequest(a, i, c) :
        a \in {"linkCategory", "unlinkCategory"},
        i \in ItemIds, c \in DOMAIN SeedCategories}

CatalogRequests ==
    CreateItemTypeRequests \cup CreateCategoryRequests \cup CreateItemRequests
        \cup LinkRequests

NextCatalog ==
    \E r \in CatReqs :
        \/ \E q \in CatalogRequests :
             \/ CreateItemType(r, q)
             \/ CreateCategory(r, q)
             \/ CreateItem(r, q)
             \/ LinkCategory(r, q)
             \/ UnlinkCategory(r, q)
        \/ Respond(r)

SpecCatalog == Init /\ [][NextCatalog]_vars

----------------------------------------------------------------------------
\* `npx prisma db seed` is started while the handler serves create and
\* deleteItem requests.

\* Number of requests served while the seed script runs.
MaxReseedReq == 1

ReseedReqs == 1..MaxReseedReq

\* The creates name rows of the database before the script and the first
\* rows the script inserts.
ReseedRequests ==
    CreateItemTypeRequests
        \cup {Post(Body("createCategory",
                        ("code" :> Str(NewCode)) @@ ("name" :> ValidText)
                            @@ ("parentId" :> Num(c)))) :
                 c \in {1, Len(SeedCategories) + 1}}
        \cup {Post(Body("createItem",
                        ("title" :> ValidText) @@ ("itemTypeId" :> Num(t)))) :
                 t \in {1, Len(SeedItemTypes) + 1}}

NextReseed ==
    \E r \in ReseedReqs :
        \/ \E q \in ReseedRequests :
             \/ CreateItemType(r, q)
             \/ CreateCategory(r, q)
             \/ CreateItem(r, q)
        \/ ItemDelete(r)
        \/ DeleteCascade(r)
        \/ Respond(r)

SpecReseed == InitSeed /\ [][NextReseed \/ SeedNext]_vars

----------------------------------------------------------------------------
\* The page (Home): refresh and submit send one request at a time and keep
\* the snapshot of a response with ok = true (setSnap); a response with
\* ok = false only sets the error text. The seed script is started while the
\* page is open, so the database has a second writer.

SpecPage == InitSeed /\ [][NextSeq \/ SeedNext]_vars

----------------------------------------------------------------------------
\* Snapshot readers beside writers: GET requests and catalog requests served
\* concurrently, every getSnapshot running its three queries one by one.

\* Number of requests in one run of readers and writers.
MaxReadReq == 3

ReadReqs == 1..MaxReadReq

\* The writers create an item type and a category and refer to the new rows
\* by the ids the seeded database gives them.
ReadRequests ==
    {Refresh,
     Post(Body("createItemType", ("code" :> Str(NewCode)) @@ ("name" :> ValidText))),
     Post(Body("createCategory", ("code" :> Str(NewCode)) @@ ("name" :> ValidText))),
     Post(Body("createItem", ("title" :> ValidText)
                                @@ ("itemTypeId" :> Num(Len(SeedItemTypes) + 1)))),
     LinkRequest("linkCategory", 1, Len(SeedCategories) + 1)}

NextRead ==
    \E r \in ReadReqs :
        \/ \E q \in ReadRequests :
             \/ Get(r, q)
             \/ CreateItemType(r, q)
             \/ CreateCategory(r, q)
             \/ CreateItem(r, q)
             \/ LinkCategory(r, q)
        \/ ReadItemTypes(r)
        \/ ReadCategories(r)
        \/ ReadItems(r)
        \/ RespondRead(r)

SpecRead == Init /\ [][NextRead]_vars

----------------------------------------------------------------------------
\* Properties.

\* Requests that passed the field checks and target item i.
Targets(i) == {r \in Reqs : payload[r].itemId = i}
Of(i, a) == {r \in Targets(i) : payload[r].action = a}
AllDone(S) == \A r \in S : pc[r] = "done"
Succeeded(S) == {r \in S : res[r].ok}
\* Loan rows of item i that were inserted during the run.
NewLoans(i) == LoansOf(i) \ DOMAIN storage0.loan
WasAvailable(i) == storage0.item[i].currentLoanId = Null

\* C1: in every committed state each item has at most one loan row with
\* returnedAt = null.
C1_AtMostOneOpenLoan ==
    \A l1, l2 \in DOMAIN loan :
        /\ loan[l1].itemId = loan[l2].itemId
        /\ loan[l1].returnedAt = Null
        /\ loan[l2].returnedAt = Null
        => l1 = l2

\* C1 witness: an item with a closed loan and a newer open loan, after a second
\* checkout was refused.
C1_Witness ==
    \E i \in DOMAIN item, r \in Reqs :
        /\ Cardinality(LoansOf(i)) >= 2
        /\ Cardinality(OpenLoans(i)) = 1
        /\ payload[r].itemId = i
        /\ res[r].kind = "already_loaned"

\* C2: in every committed state an item's currentLoanId is non-null iff the item
\* has an open loan, and a non-null currentLoanId references an existing open
\* loan row; stated for the handler and for the seed script's steps alike.
C2_PointerIffOpenLoan ==
    \A i \in DOMAIN item :
        /\ item[i].currentLoanId # Null <=> OpenLoans(i) # {}
        /\ item[i].currentLoanId # Null =>
             /\ LoanExists(item[i].currentLoanId)
             /\ loan[item[i].currentLoanId].returnedAt = Null

\* C3: N >= 1 checkouts on an AVAILABLE item, in any interleaving: exactly one
\* succeeds, the others fail with a conflict error (status 400: the thrown
\* 'already loaned', or the storage layer's deadlock abort), and exactly one
\* new loan row exists, open, referenced by the item's currentLoanId.
ConflictKinds == {"already_loaned", "deadlock"}

C3_OneCheckoutWins ==
    \A i \in ItemIds :
        LET C == Of(i, "checkout") IN
        (WasAvailable(i) /\ C # {} /\ Targets(i) = C /\ AllDone(C)) =>
            /\ Cardinality(Succeeded(C)) = 1
            /\ \A r \in C \ Succeeded(C) :
                 res[r].status = 400 /\ res[r].kind \in ConflictKinds
            /\ ItemExists(i)
            /\ Cardinality(LoansOf(i)) = 1
            /\ \A l \in LoansOf(i) :
                 loan[l].returnedAt = Null /\ item[i].currentLoanId = l

\* C3 witness: three checkouts raced on one available item; one was the
\* deadlock victim, one was refused as already loaned.
C3_Witness ==
    \E i \in ItemIds :
        LET C == Of(i, "checkout") IN
        /\ WasAvailable(i) /\ Targets(i) = C /\ AllDone(C)
        /\ Cardinality(C) >= 3
        /\ \E r, s \in C : res[r].kind = "deadlock" /\ res[s].kind = "already_loaned"

\* C4: N >= 1 returns on an ON_LOAN item, in any interleaving: exactly one
\* succeeds, the others fail at the fail-fast read or at the conditional write,
\* and afterwards the loan is closed and the item's currentLoanId is null.
C4_OneReturnWins ==
    \A i \in ItemIds :
        LET R == Of(i, "return")
            l == storage0.item[i].currentLoanId
        IN
        (~WasAvailable(i) /\ R # {} /\ Targets(i) = R /\ AllDone(R)) =>
            /\ Cardinality(Succeeded(R)) = 1
            /\ \A r \in R \ Succeeded(R) :
                 res[r].kind \in {"no_active_loan", "failed_to_return"}
            /\ LoanExists(l) /\ loan[l].returnedAt # Null
            /\ ItemExists(i) /\ item[i].currentLoanId = Null

\* C4 witness: three returns raced on the item on loan; one lost at the
\* conditional write, one at the fail-fast read.
C4_Witness ==
    \E i \in ItemIds :
        LET R == Of(i, "return") IN
        /\ ~WasAvailable(i) /\ Targets(i) = R /\ AllDone(R)
        /\ Cardinality(R) >= 3
        /\ \E r, s \in R :
             res[r].kind = "failed_to_return" /\ res[s].kind = "no_active_loan"

\* C5: when the checkout's conditional write affects zero rows, the rollback
\* leaves the loan rows and the item rows as they were (the loan the request
\* created is in no committed state) and the answer is 'already loaned'.
C5_CheckoutRollsBack ==
    [][\A r \in Reqs :
         (pc[r] = "abort" /\ payload[r].action = "checkout" /\ pc'[r] # "abort") =>
             /\ loan' = loan
             /\ item' = item
             /\ txLoan[r] \notin DOMAIN loan'
             /\ res'[r] = Fail(400, "already_loaned")]_vars

\* C5 witness: a checkout was refused after it had created its loan row.
C5_Witness ==
    \E r \in Reqs :
        /\ pc[r] = "done"
        /\ payload[r].action = "checkout"
        /\ res[r].kind = "already_loaned"
        /\ OpenLoans(payload[r].itemId) # {}

\* C6: a return is all-or-nothing: a step clears an item's pointer to loan l
\* exactly when it closes l, and when the return's conditional write affects
\* zero rows the rollback leaves both tables as they were and the answer is
\* 'failed to return'.
C6_ReturnAllOrNothing ==
    [][/\ \A i \in DOMAIN item \cap DOMAIN item' :
            (item[i].currentLoanId # Null /\ item'[i].currentLoanId = Null) =>
                LET l == item[i].currentLoanId IN
                /\ l \in DOMAIN loan /\ l \in DOMAIN loan'
                /\ loan[l].returnedAt = Null /\ loan'[l].returnedAt # Null
       /\ \A l \in DOMAIN loan \cap DOMAIN loan' :
            (loan[l].returnedAt = Null /\ loan'[l].returnedAt # Null) =>
                LET i == loan[l].itemId IN
                /\ i \in DOMAIN item /\ i \in DOMAIN item'
                /\ item[i].currentLoanId = l /\ item'[i].currentLoanId = Null
       /\ \A r \in Reqs :
            (pc[r] = "abort" /\ payload[r].action = "return" /\ pc'[r] # "abort") =>
                /\ loan' = loan
                /\ item' = item
                /\ res'[r] = Fail(400, "failed_to_return")]_vars

\* C6 witness: one return committed and another was rolled back at the
\* conditional write.
C6_Witness ==
    \E r, s \in Reqs :
        /\ payload[r].action = "return" /\ pc[r] = "done" /\ res[r].ok
        /\ payload[s].action = "return" /\ res[s].kind = "failed_to_return"
        /\ payload[s].itemId = payload[r].itemId

\* C7: checkout, return, checkout on one item, each succeeding and nothing else
\* targeting the item: the sequence leaves exactly two loan rows of its own,
\* the older closed, the newer open and referenced by currentLoanId.
C7_CheckoutReturnCheckout ==
    \A i \in ItemIds :
        LET Co == Of(i, "checkout")
            Re == Of(i, "return")
            T == Targets(i)
        IN
        (/\ T = Co \cup Re /\ Cardinality(Co) = 2 /\ Cardinality(Re) = 1
         /\ AllDone(T) /\ Succeeded(T) = T) =>
            /\ ItemExists(i)
            /\ Cardinality(NewLoans(i)) = 2
            /\ \E a, b \in NewLoans(i) :
                 /\ a < b
                 /\ loan[a].returnedAt # Null
                 /\ loan[b].returnedAt = Null
                 /\ item[i].currentLoanId = b

\* C7 witness: the three requests ran and succeeded.
C7_Witness ==
    \E i \in ItemIds :
        /\ Cardinality(Of(i, "checkout")) = 2
        /\ Cardinality(Of(i, "return")) = 1
        /\ AllDone(Targets(i))
        /\ Succeeded(Targets(i)) = Targets(i)
        /\ Cardinality(Targets(i)) = 3

\* C8: once a loan row is closed in a committed state, no later step changes
\* its returnedAt, patronName or itemId.
C8_ClosedLoanImmutable ==
    [][\A l \in DOMAIN loan \cap DOMAIN loan' :
         loan[l].returnedAt # Null => loan'[l] = loan[l]]_vars

\* C8 witness: a return that had read the loan id before another return closed
\* the loan ran its transaction, failed, and the item is out on a newer loan.
C8_Witness ==
    \E l \in DOMAIN loan, s \in Reqs :
        /\ loan[l].returnedAt # Null
        /\ payload[s].action = "return"
        /\ payload[s].itemId = loan[l].itemId
        /\ res[s].kind = "failed_to_return"
        /\ ItemExists(loan[l].itemId)
        /\ item[loan[l].itemId].currentLoanId \notin {Null, l}

\* C9: no loan row ever references a missing item; a deleteItem that committed
\* left no loan of its item, whether the item was AVAILABLE or ON_LOAN; and a
\* deleteItem of an existing item is refused only when the item was deleted by
\* another deleteItem first, or when the storage layer picked it as the
\* deadlock victim against a return that was in flight on the same item.
Deleted(r) ==
    /\ payload[r].action = "deleteItem"
    /\ pc[r] = "snapshot" \/ (pc[r] = "done" /\ res[r].ok)

C10_FailureLeavesStorage ==
    \A r \in Reqs :
        (pc[r] = "done" /\ ~res[r].ok /\ \A s \in Reqs \ {r} : pc[s] = "idle") =>
            item = storage0.item /\ loan = storage0.loan

\* The step in which request r is read and runs to its first await.
Arriving(r) == pc[r] = "idle" /\ pc'[r] # "idle" /\ payload'[r].action \in Actions

\* C11: a checkout, return or deleteItem whose payload names an item that does
\* not exist is answered with the 'not found' outcome, status 404.
C11_MissingRecordIs404 ==
    [][\A r \in Reqs :
         (Arriving(r) /\ ~ItemExists(payload'[r].itemId)) =>
             res'[r] = Fail(404, "not_found")]_vars

\* C12: a return on an item whose currentLoanId is null at the initial read is
\* answered 'no active loan' in that very step, before any transaction is
\* opened, and no loan or item row is written.
C12_ReturnFailsFast ==
    [][\A r \in Reqs :
         LET i == payload'[r].itemId IN
         (/\ Arriving(r) /\ payload'[r].action = "return"
          /\ ItemExists(i) /\ item[i].currentLoanId = Null) =>
             /\ pc'[r] = "done"
             /\ res'[r] = Fail(400, "no_active_loan")
             /\ item' = item
             /\ loan' = loan]_vars

\* C12 witness: a return of an existing, available item was refused.
C12_Witness ==
    \E r \in Reqs :
        /\ payload[r].action = "return"
        /\ pc[r] = "done"
        /\ res[r].kind = "no_active_loan"
        /\ ItemExists(payload[r].itemId)
        /\ item[payload[r].itemId].currentLoanId = Null

\* The five tables.
tables == <<item, loan, itemType, category, itemToCategory>>

\* The step in which the handler is entered with HTTP request http'[r].
Served(r) == pc[r] = "idle" /\ pc'[r] # "idle" /\ http'[r].method # ""

\* C13: with a token configured, a POST whose Authorization header is absent
\* or is not 'Bearer ' followed by exactly the token is answered 401 in the
\* step that serves it, with every table unchanged, so no mutation of it is
\* ever executed; a GET is answered 200 with the snapshot whatever its header.
C13_BearerGate ==
    /\ [][\A r \in Reqs :
            (/\ Served(r) /\ envToken # <<>>
             /\ http'[r].method = "POST"
             /\ http'[r].authorization # Bearer \o Token) =>
                /\ pc'[r] = "done"
                /\ res'[r] = Fail(401, "unauthorized")
                /\ tables' = tables]_vars
    /\ [](\A r \in Reqs :
            (envToken # <<>> /\ http[r].method = "GET") =>
                /\ pc[r] \in {"snapshot", "done"}
                /\ pc[r] = "done" => res[r] = Ok)

\* The text and id fields the claim names, per action.
KnownActions ==
    {"createItemType", "createCategory", "createItem", "linkCategory",
     "unlinkCategory", "checkout", "return", "deleteItem"}

TextFieldsOf(a) ==
    CASE a \in {"createItemType", "createCategory"} -> {"code", "name"}
      [] a = "createItem" -> {"title"}
      [] a = "checkout" -> {"patronName"}
      [] OTHER -> {}

IdFieldsOf(a) ==
    CASE a = "createItem" -> {"itemTypeId"}
      [] a \in {"linkCategory", "unlinkCategory"} -> {"itemId", "categoryId"}
      [] a \in {"checkout", "return"} -> {"itemId"}
      [] a = "deleteItem" -> {"id"}
      [] OTHER -> {}

\* A text field that is missing, empty or made of whitespace only.
EmptyText(v) ==
    \/ v.t = "undefined"
    \/ v.t = "string" /\ \A k \in 1..Len(v.s) : v.s[k] = " "

\* An id field that is no number, or NaN.
BadId(v) == v.t # "number" \/ v.nan

Malformed(b) ==
    \/ b.action = ""
    \/ b.payload.t = "undefined"
    \/ b.action \notin KnownActions
    \/ \E k \in TextFieldsOf(b.action) : EmptyText(b.payload.f[k])
    \/ \E k \in IdFieldsOf(b.action) : BadId(b.payload.f[k])

\* C14: an authenticated POST with a missing action or payload, an unknown
\* action, an empty or whitespace-only code, name, title or patronName, or a
\* non-number or NaN itemId, categoryId, itemTypeId or id is answered 400 in
\* the step that serves it: no table is written and no id sequence is drawn.
C14_MalformedIs400 ==
    [][\A r \in Reqs :
         (/\ Served(r) /\ envToken # <<>>
          /\ http'[r].method = "POST"
          /\ http'[r].authorization = Bearer \o Token
          /\ Malformed(http'[r].body)) =>
             /\ pc'[r] = "done"
             /\ res'[r].status = 400 /\ ~res'[r].ok
             /\ tables' = tables
             /\ <<loanSeq, itemSeq, itemTypeSeq, categorySeq>>' =
                    <<loanSeq, itemSeq, itemTypeSeq, categorySeq>>]_vars

\* C14 witness: a createItemType with a name and a whitespace-only code was
\* refused.
C14_Witness ==
    \E r \in Reqs :
        /\ pc[r] = "done" /\ res[r].status = 400
        /\ http[r].authorization = Bearer \o Token
        /\ http[r].body.action = "createItemType"
        /\ http[r].body.payload.t = "object"
        /\ http[r].body.payload.f.code = Str(<<" ">>)
        /\ http[r].body.payload.f.name = Str(<<"a">>)

\* The step in which request r is answered 200 with a snapshot.
Answers(r) == pc[r] = "snapshot" /\ pc'[r] = "done" /\ res'[r].ok

\* List rows names every id in ids exactly once.
ExactlyOnce(rows, ids) ==
    /\ Len(rows) = Cardinality(ids)
    /\ {rows[k].id : k \in 1..Len(rows)} = ids

\* Snapshot s shows the tables as they are.
Shows(s) ==
    /\ ExactlyOnce(s.itemTypes, DOMAIN itemType)
    /\ ExactlyOnce(s.categories, DOMAIN category)
    /\ ExactlyOnce(s.items, DOMAIN item)
    /\ \A k \in 1..(Len(s.items) - 1) : s.items[k].id < s.items[k + 1].id
    /\ \A k \in 1..Len(s.items) :
         LET i == s.items[k].id
             c == s.items[k].currentLoan
         IN  /\ c.id # Null <=> item[i].currentLoanId # Null
             /\ c.id # Null =>
                  /\ c.id = item[i].currentLoanId
                  /\ c.patronName = loan[c.id].patronName
                  /\ c.checkoutDate.date = loan[c.id].checkoutDate
                  /\ loan[c.id].returnedAt = Null
                  /\ loan[c.id].itemId = i

Listed(s, i) == {s.items[k] : k \in {j \in 1..Len(s.items) : s.items[j].id = i}}

\* C16: with the requests sent one at a time, the snapshot of a 200 response
\* shows the tables as of that response: after a successful checkout(i, P)
\* item i loaned to P, after a successful return(i) item i available; and the
\* latest snapshot received, from a mutation or a GET, still shows the tables
\* whenever no request is in flight.
C16_SnapshotIsCurrent ==
    /\ [][\A r \in Reqs :
            Answers(r) =>
                /\ Shows(snapshot')
                /\ payload[r].action = "checkout" =>
                     \E it \in Listed(snapshot', payload[r].itemId) :
                         /\ it.currentLoan.id # Null
                         /\ it.currentLoan.patronName = payload[r].patronName
                /\ payload[r].action = "return" =>
                     \E it \in Listed(snapshot', payload[r].itemId) :
                         it.currentLoan.id = Null]_vars
    /\ []((Quiet /\ \E r \in Reqs : pc[r] = "done" /\ res[r].ok) => Shows(snapshot))

\* C16 witness: a checkout, then a return of the same item, then a GET, all
\* answered 200.
C16_Witness ==
    \E r1, r2, r3 \in Reqs :
        /\ r1 < r2 /\ r2 < r3
        /\ \A r \in {r1, r2, r3} : pc[r] = "done" /\ res[r].ok
        /\ payload[r1].action = "checkout"
        /\ payload[r2].action = "return"
        /\ payload[r2].itemId = payload[r1].itemId
        /\ http[r3].method = "GET"

\* C17: under fair scheduling every checkout, return and deleteItem request
\* that was received is eventually answered, however many requests run on the
\* same item; an answered request keeps its one answer and never runs again.
C17_EveryRequestCompletes ==
    /\ \A r \in Reqs : (pc[r] # "idle") ~> (pc[r] = "done")
    /\ [][\A r \in Reqs :
            pc[r] = "done" => pc'[r] = "done" /\ res'[r] = res[r]]_vars

\* C17 witness: the requests on one item were all answered, one of them
\* aborted out of a cycle of lock waits.
C17_Witness ==
    \E i \in ItemIds :
        /\ Cardinality(Targets(i)) >= MaxLiveReq
        /\ AllDone(Targets(i))
        /\ \E r \in Targets(i) : res[r].kind = "deadlock"

\* The foreign keys item.item_type_id, category.parent_id and loan.item_id
\* each name a row that exists.
ReferentialIntegrity ==
    /\ \A i \in DOMAIN item : item[i].itemTypeId \in DOMAIN itemType
    /\ \A c \in DOMAIN category :
         category[c].parentId = Null \/ category[c].parentId \in DOMAIN category
    /\ \A l \in DOMAIN loan : loan[l].itemId \in DOMAIN item

\* The categories whose parent is c.
ChildrenOf(c) == {d \in DOMAIN category : category[d].parentId = c}

UniqueCodes(table) ==
    \A a, b \in DOMAIN table : table[a].code = table[b].code => a = b

\* Request r is served by this step, with action a.
Dispatched(r, a) ==
    /\ pc[r] = "idle"
    /\ pc'[r] # "idle"
    /\ http'[r].body.action = a

\* The code a create request was sent with.
CodeOf(r) == http[r].body.payload.f.code.s

\* The requests of action a and code c that were sent.
Creates(a, c) ==
    {r \in CatReqs : pc[r] # "idle" /\ http[r].body.action = a /\ CodeOf(r) = c}

\* Of the answered creates of one code, those refused for a missing parent
\* set aside, exactly one succeeded, none when the seed data has the code;
\* the others were answered 400 for the code, and one row has the code.
OneCreateWins(a, table, seeded) ==
    \A c \in {NewCode} \cup {seeded[k].code : k \in DOMAIN seeded} :
        LET S == {r \in Creates(a, c) : res[r].kind # "foreign_key"} IN
        (S # {} /\ AllDone(Creates(a, c))) =>
            /\ Cardinality(Succeeded(S)) = IF CodeTaken(seeded, c) THEN 0 ELSE 1
            /\ \A r \in S \ Succeeded(S) :
                 res[r].status = 400 /\ res[r].kind = "unique"
            /\ Cardinality({k \in DOMAIN table : table[k].code = c}) = 1

\* C19: in every committed state no two item types share a code and no two
\* categories share a code; a createItemType or createCategory whose code is
\* already in the table is answered 400 and leaves the table as it was; and of
\* the creates of one code served concurrently exactly one inserts its row.
C19_UniqueCodes ==
    /\ [](UniqueCodes(itemType) /\ UniqueCodes(category))
    /\ [](/\ OneCreateWins("createItemType", itemType, SeedItemTypes)
          /\ OneCreateWins("createCategory", category, SeedCategories))
    /\ [][\A r \in CatReqs :
            /\ (Dispatched(r, "createItemType")
                    /\ CodeTaken(itemType, http'[r].body.payload.f.code.s))
                 => /\ res'[r] = Fail(400, "unique")
                    /\ pc'[r] = "done"
                    /\ itemType' = itemType
            /\ (Dispatched(r, "createCategory")
                    /\ CodeTaken(category, http'[r].body.payload.f.code.s))
                 => /\ res'[r] = Fail(400, "unique")
                    /\ pc'[r] = "done"
                    /\ category' = category]_vars

\* C19 witness: two createItemType requests of one new code were answered,
\* one with the snapshot and one with 400, and one row has the code.
C19_Witness ==
    /\ \E r, s \in Creates("createItemType", NewCode) :
         /\ pc[r] = "done" /\ res[r].ok
         /\ pc[s] = "done" /\ res[s].kind = "unique"
    /\ Cardinality(DOMAIN itemType) = Len(SeedItemTypes) + 1

\* C19 witness for categories: a createCategory of a seeded code was refused
\* and the category table is the seeded one.
C19_CategoryWitness ==
    \E r \in Creates("createCategory", SeedCategories[1].code) :
        /\ pc[r] = "done"
        /\ res[r].kind = "unique"
        /\ category = SeedCategories

\* The category set of item i.
CategoriesOf(links, i) == {ab[1] : ab \in {cd \in links : cd[2] = i}}

\* The first request linked item i to category c, the second unlinked the
\* pair, and no other request was sent.
LinkedThenUnlinked(i, c) ==
    /\ http[1] = LinkRequest("linkCategory", i, c)
    /\ http[2] = LinkRequest("unlinkCategory", i, c)
    /\ \A r \in CatReqs : r > 2 => pc[r] = "idle"

\* C20: a linkCategory(i, c) served when item i is linked to c leaves every
\* item's category set as it was; after linkCategory(i, c) and then
\* unlinkCategory(i, c) on an item that was not linked to c every item has the
\* category set it had; and the step that serves a linkCategory or an
\* unlinkCategory changes no item row (currentLoanId included) and no loan row.
C20_CategoriesFormASet ==
    /\ [][\A r \in CatReqs :
            LET f == http'[r].body.payload.f IN
            /\ (Dispatched(r, "linkCategory")
                    /\ f.categoryId.n \in CategoriesOf(itemToCategory, f.itemId.n))
                 => /\ itemToCategory' = itemToCategory
                    /\ pc'[r] = "snapshot"
            /\ (Dispatched(r, "linkCategory") \/ Dispatched(r, "unlinkCategory"))
                 => item' = item /\ loan' = loan]_vars
    /\ [](\A i \in ItemIds, c \in DOMAIN SeedCategories :
            (LinkedThenUnlinked(i, c) /\ <<c, i>> \notin SeedItemToCategory)
                => \A j \in ItemIds :
                     CategoriesOf(itemToCategory, j) = CategoriesOf(SeedItemToCategory, j))

\* C20 witness: item 2, in no category, was linked to category 1 and
\* unlinked again, both answered with the snapshot, while item 1 is on loan
\* and in both categories.
C20_Witness ==
    /\ LinkedThenUnlinked(2, 1)
    /\ AllDone({1, 2})
    /\ res[1].ok /\ res[2].ok
    /\ itemToCategory = SeedItemToCategory
    /\ CategoriesOf(itemToCategory, 1) = DOMAIN SeedCategories
    /\ item[1].currentLoanId # Null

\* C20 witness of the idempotent case: item 1 was linked twice to a category
\* it was in, and its category set is the seeded one.
C20_LinkedTwice ==
    /\ http[1] = LinkRequest("linkCategory", 1, 1)
    /\ http[2] = LinkRequest("linkCategory", 1, 1)
    /\ AllDone({1, 2})
    /\ res[1].ok /\ res[2].ok
    /\ itemToCategory = SeedItemToCategory

\* The step that ends request r: its response reaches the page.
Completes(r) == pc[r] # "done" /\ pc'[r] = "done"

\* C21: when a request of the page completes, the response with ok = false
\* included, the snapshot the page displays from then on is one read from the
\* tables after the attempt, never the one it displayed before. Stated for a
\* page that has loaded its first snapshot, and by value: a displayed
\* snapshot equal to a fresh read counts as fetched.
C21_PageRefetches ==
    [][\A r \in Reqs :
         (Completes(r) /\ snapshot # NoSnapshot) => snapshot' = GetSnapshot']_vars

\* Return request r is between its findUnique and its response, holding the
\* loan id it read.
Returning(r) ==
    /\ payload[r].action = "return"
    /\ pc[r] \in {"read", "closed", "cleared", "abort"}

\* Checkout request r holds the loan id its insert drew.
Inserting(r) ==
    /\ payload[r].action = "checkout"
    /\ pc[r] \in {"created", "updated", "abort"}

\* Item i was checked out again under loan id new after the loan id old was
\* read: old is closed, new is open and is the item's currentLoanId.
CheckedOutAgain(i, old, new) ==
    /\ ItemExists(i)
    /\ LoanExists(old) /\ loan[old].returnedAt # Null
    /\ new # old
    /\ item[i].currentLoanId = new
    /\ LoanExists(new) /\ loan[new].returnedAt = Null

\* C22: a return that read loan id L writes nothing but the returnedAt of
\* loan L and the currentLoanId of an item whose currentLoanId is L, which it
\* sets to null; a loan id drawn by a checkout is never one that a loan row or
\* a request already holds; and a return whose item was returned and checked
\* out again (loan L') after the read is answered with ok = false, leaving L'
\* open and the item's currentLoanId L'.
C22_ReturnClosesOnlyItsLoan ==
    /\ [](\A r \in Reqs :
            /\ \A l \in DOMAIN loan : l < loanSeq
            /\ Returning(r) => txLoan[r] < loanSeq
            /\ Inserting(r) =>
                 /\ txLoan[r] < loanSeq
                 /\ txLoan[r] \notin DOMAIN loan
                 /\ \A s \in Reqs \ {r} :
                      (Returning(s) \/ Inserting(s)) => txLoan[s] # txLoan[r])
    /\ [][loanSeq' >= loanSeq]_vars
    /\ [][\A r \in Reqs :
            (Returning(r) /\ pc'[r] # pc[r]) =>
                LET L == txLoan[r]
                    i == payload[r].itemId
                IN  /\ DOMAIN loan' = DOMAIN loan
                    /\ \A l \in DOMAIN loan :
                         loan'[l] # loan[l] =>
                            l = L /\ loan'[l] = [loan[l] EXCEPT !.returnedAt = Now(r)]
                    /\ DOMAIN item' = DOMAIN item
                    /\ \A j \in DOMAIN item :
                         item'[j] # item[j] =>
                            /\ j = i
                            /\ item[j].currentLoanId = L
                            /\ item'[j] = [item[j] EXCEPT !.currentLoanId = Null]
                    /\ \A new \in DOMAIN loan :
                         CheckedOutAgain(i, L, new) =>
                            /\ item'[i].currentLoanId = new
                            /\ loan'[new] = loan[new]
                            /\ pc'[r] \notin {"cleared", "snapshot"}
                            /\ pc'[r] = "done" => ~res'[r].ok]_vars

\* C22 witness: a return read loan id L, another return closed L and a
\* checkout opened L' on the item; the first return's conditional write
\* matched no row and its transaction is about to roll back.
C22_Witness ==
    \E r \in Reqs, new \in DOMAIN loan :
        /\ Returning(r)
        /\ pc[r] = "abort"
        /\ CheckedOutAgain(payload[r].itemId, txLoan[r], new)

\* C23: in every committed state the handler reaches, a non-null
\* currentLoanId of an item names a loan row whose itemId is that item, and no
\* two items have the same non-null currentLoanId.
C23_PointerNamesOwnLoan ==
    /\ \A i \in DOMAIN item :
         item[i].currentLoanId # Null =>
            /\ LoanExists(item[i].currentLoanId)
            /\ loan[item[i].currentLoanId].itemId = i
    /\ \A i, j \in DOMAIN item :
         (item[i].currentLoanId # Null /\ item[i].currentLoanId = item[j].currentLoanId)
            => i = j

\* C23 witness: two items are on loan, each under a loan the run inserted, one
\* of them after the seeded loan of the item was returned.
C23_Witness ==
    \E i, j \in DOMAIN item :
        /\ i # j
        /\ item[i].currentLoanId \in NewLoans(i)
        /\ item[j].currentLoanId \in NewLoans(j)
        /\ Cardinality(LoansOf(i)) = 2

\* Following parentId from category c reaches null within n steps.
RECURSIVE ReachesNull(_, _)
ReachesNull(c, n) ==
    \/ c = Null
    \/ /\ n > 0
       /\ c \in DOMAIN category
       /\ ReachesNull(category[c].parentId, n - 1)

\* C24: in every state the handler reaches, following parentId from any
\* category reaches null in at most as many steps as there are categories.
C24_ParentsAcyclic ==
    \A c \in DOMAIN category : ReachesNull(c, Cardinality(DOMAIN category))

\* The ids listed in a sequence of snapshot rows.
IdsOf(rows) == {rows[k].id : k \in DOMAIN rows}

\* C25: every snapshot a response carries is consistent in itself, also while
\* other requests write: each item of its items list has its item type id in
\* its itemTypes list and each of its category ids in its categories list.
C25_SnapshotConsistent ==
    \A k \in DOMAIN snapshot.items :
        /\ snapshot.items[k].itemType \in IdsOf(snapshot.itemTypes)
        /\ snapshot.items[k].categories \subseteq IdsOf(snapshot.categories)

====
